---- MODULE Spec2Model ----
(***************************************************************************)
(* snow-plow: the registry of tracked flakes (Interface), its load from    *)
(* and save to config.csv, and the invocation of nix with the              *)
(* classification of its standard error, as written in src/src/main.rs.    *)
(*                                                                         *)
(* One process runs one command: main builds the Interface (init loads     *)
(* the file), dispatches the command, calls clean on Ok, and exits.  The   *)
(* storage file outlives the process; NewProcess starts the next command.  *)
(***************************************************************************)
EXTENDS Integers, Sequences, FiniteSets, TLC

\* ------------------------------------------------------------------ bounds
\* Records in the storage file when the first command starts.
MaxRecords == 2
\* Lines nix writes to its standard error in one invocation, under Spec.
MaxStderr == 1
\* Lines nix writes to its standard error, under SpecPerform.
MaxLines == 4
\* How many times in a row the same command line is run.
MaxRuns == 2

\* ------------------------------------------------------------- input data
Names == {"x", "y"}

\* A path is the sequence of its components; "/" first makes it absolute.
\* "<ff>" stands for a component that is not valid UTF-8.
Cwd == <<"/", "cwd">>
ArgPaths == {<<"/", "p1">>, <<"rel">>, <<"/", "<ff>">>}

\* A line of text is the sequence of its tokens; " " is whitespace.
\* <<"<ff>">> stands for a line that is not valid UTF-8.
Lines ==
    { <<"error:", "A">>, <<"error:", "C">>, <<"context1">>,
      <<"warning:", "B">>, <<" ", "error:", "A", " ">>, <<"<ff>">> }
SpecLines == { <<"error:", "A">>, <<"warning:", "B">>, <<"<ff>">> }

\* All sequences over S of length at most n.
BoundedSeq(S, n) == UNION { [1..k -> S] : k \in 0..n }

\* ------------------------------------------------------------ std helpers
\* std::path::absolute on Unix: an absolute path is kept, a relative one
\* is put under the current directory; the empty path is an error.
absolute(path) ==
    IF path = <<>> THEN [ok |-> FALSE, path |-> <<>>]
    ELSE IF path[1] = "/" THEN [ok |-> TRUE, path |-> path]
    ELSE [ok |-> TRUE, path |-> Cwd \o path]

\* str::starts_with, on tokens.
starts_with(line, marker) == Len(line) >= 1 /\ line[1] = marker

\* str::trim: leading and trailing whitespace removed.
RECURSIVE trim_start(_)
trim_start(line) ==
    IF line # <<>> /\ Head(line) = " " THEN trim_start(Tail(line)) ELSE line

RECURSIVE trim_end(_)
trim_end(line) ==
    IF line # <<>> /\ line[Len(line)] = " "
    THEN trim_end(SubSeq(line, 1, Len(line) - 1))
    ELSE line

trim(line) == trim_end(trim_start(line))

\* std::io::ErrorKind as i32: the variant's position in the enum.
NotFound == 0
PermissionDenied == 1
InvalidInput == 20
InvalidData == 21

\* ----------------------------------------------------------------- errors
\* enum Error.  kind is the ErrorKind of an Io error; lines are the lines
\* of a Nix error; name is the flake name of the name errors.
MkError(tag, kind, name, lines) ==
    [tag |-> tag, kind |-> kind, name |-> name, lines |-> lines]
ErrIo(kind, file) == MkError("Io", kind, file, <<>>)
ErrNix(lines) == MkError("Nix", 1, "", lines)
ErrTrackedFlake(name) == MkError("TrackedFlake", 1, name, <<>>)
ErrMissingFlake(name) == MkError("MissingFlake", 1, name, <<>>)
ErrNoFlake(name) == MkError("NoFlake", 1, name, <<>>)
ErrInternal(what) == MkError("Internal", 1, what, <<>>)

\* A message on standard error: error(&err.msg()) or warn(&msg).
ErrorMsg(err) ==
    [level |-> "error", tag |-> err.tag, name |-> err.name, lines |-> err.lines]
WarnMsg(tag, name, lines) ==
    [level |-> "warning", tag |-> tag, name |-> name, lines |-> lines]

NoExit == -1

\* handle_errors: print the errors in order; with should_exit the process
\* exits at the first one, with the ErrorKind of an Io error and 1 otherwise.
\* With no error at all it prints nothing and returns.
RECURSIVE handle_errors(_, _)
handle_errors(errors, should_exit) ==
    IF errors = <<>> THEN [log |-> <<>>, exit |-> NoExit]
    ELSE LET err == Head(errors)
             error_code == IF err.tag = "Io" THEN err.kind ELSE 1
         IN  IF should_exit
             THEN [log |-> <<ErrorMsg(err)>>, exit |-> error_code]
             ELSE LET rest == handle_errors(Tail(errors), should_exit)
                  IN  [log |-> <<ErrorMsg(err)>> \o rest.log, exit |-> rest.exit]

\* ------------------------------------------------------------- the files
CONFIG_FILE == "config.csv"
\* A clean that writes the storage file in place.
tmp_path_in_place == "config.csv"
\* self.config_path.with_extension("tmp")
tmp_path == "config.tmp"
FileNames == {CONFIG_FILE, "config.tmp"}

NoFile == [exists |-> FALSE, rows |-> <<>>]
FileOf(rows) == [exists |-> TRUE, rows |-> rows]

\* struct NamedFlake, as a row of the csv file: every field is text.
Header == [name |-> "name", path |-> <<"path">>, enabled |-> "enabled"]
Row(name, path, enabled) == [name |-> name, path |-> path, enabled |-> enabled]
\* A row whose third field is no boolean literal.
BadRows == { Row("x", <<"/", "p1">>, "yes") }
GoodRows ==
    { Row("x", <<"/", "p1">>, "true"), Row("x", <<"/", "cwd", "rel">>, "false"),
      Row("x", <<"/", "cwd", "rel">>, "true"),
      Row("y", <<"/", "p1">>, "true"), Row("y", <<"/", "cwd", "rel">>, "false") }

\* The storage file before the first command: absent, or written by an
\* earlier run (or by hand): the header row, then the records.
InitialFiles ==
    {NoFile, FileOf(<<>>)}
    \cup { FileOf(<<Header>> \o rs) : rs \in BoundedSeq(GoodRows \cup BadRows, MaxRecords) }

\* Path::to_str of serde's Serialize for Path: None when not UTF-8.
is_utf8(path) == \A i \in 1..Len(path) : path[i] # "<ff>"

\* A serialization that loses the enabled flag.
SerializeRowEnabled(name, flake) == Row(name, flake.path, "true")
\* impl From<(String, Flake)> for NamedFlake, then csv's serialization of
\* the three fields.
SerializeRow(name, flake) ==
    Row(name, flake.path, IF flake.enabled THEN "true" ELSE "false")

\* csv's deserialization of a row into NamedFlake: the bool field accepts
\* the literals true and false only.
row_ok(row) == row.enabled \in {"true", "false"}
\* impl From<NamedFlake> for (String, Flake)
FlakeOfRow(row) == [path |-> row.path, enabled |-> (row.enabled = "true")]

\* An insert that leaves an existing entry in place.
map_insert_keep(m, k, val) ==
    [n \in (DOMAIN m) \cup {k} |-> IF n \in DOMAIN m THEN m[n] ELSE val]
\* HashMap::insert
map_insert(m, k, val) ==
    [n \in (DOMAIN m) \cup {k} |-> IF n = k THEN val ELSE m[n]]
\* HashMap::remove
map_remove(m, k) == [n \in (DOMAIN m) \ {k} |-> m[n]]

EmptyMap == [n \in {} |-> 0]

\* The loop of init over reader.deserialize(): every record is inserted,
\* and an entry the insert replaced is reported with its path.
RECURSIVE init_loop(_, _, _)
init_loop(rows, fl, warns) ==
    IF rows = <<>> THEN [ok |-> TRUE, flakes |-> fl, warns |-> warns]
    ELSE LET row == Head(rows) IN
         IF ~row_ok(row) THEN [ok |-> FALSE, flakes |-> fl, warns |-> warns]
         ELSE LET name == row.name
                  warns2 ==
                      IF name \in DOMAIN fl
                      THEN Append(warns, WarnMsg("Duplicate", name, <<fl[name].path>>))
                      ELSE warns
              IN  init_loop(Tail(rows), map_insert(fl, name, FlakeOfRow(row)), warns2)

\* csv::Reader with headers: the first row is the header, the rest records.
records_of(rows) == IF rows = <<>> THEN <<>> ELSE Tail(rows)

\* All orders in which a HashMap with these keys may be iterated.
Orders(keys) ==
    { s \in [1..Cardinality(keys) -> keys] :
        \A i, j \in 1..Cardinality(keys) : i # j => s[i] # s[j] }

\* ------------------------------------------------------------------ state
VARIABLES
    fs,            \* the files of the config directory, by name
    pc,            \* where the process is
    cmd,           \* cli.commands
    flakes,        \* Interface.flakes
    cleaned,       \* Interface.cleaned
    res,           \* the Result the command (and then clean) returned
    exitCode,      \* the exit code once the process has ended, else NoExit
    stderrLog,     \* what warn and error wrote, in order
    stdoutLog,     \* what println! wrote, in order
    invocations,   \* the nix commands run by this process, in order
    cleanCalls,    \* how many times clean was entered by this process
    fileBefore,    \* the storage file when clean was entered
    writer,        \* clean: the csv::Writer over the created file
    todo,          \* clean, update_flakes: the entries still to iterate
    position,      \* update_flakes: enumerate()'s index
    output,        \* perform: cmd.output()
    line_no,       \* perform: lines of output.stderr consumed
    current_error, \* perform: the open error, <<>> for None
    v,             \* perform: the errors pushed so far
    performRes,    \* what perform returned to its caller
    loaded,        \* history: self.flakes as init left it
    opDone,        \* history: how the command's operation ended, "none" before
    failures,      \* history: how many invocations of nix exited without success
    reported,      \* history: how many entries update_flakes printed errors for
    done           \* history: how many times in a row cmd has run and exited 0

vars ==
    << fs, pc, cmd, flakes, cleaned, res, exitCode, stderrLog, stdoutLog,
       invocations, cleanCalls, fileBefore, writer, todo, position,
       output, line_no, current_error, v, performRes, loaded, opDone, failures,
       reported, done >>

performVars == << output, line_no, current_error, v, performRes >>
cleanVars == << cleanCalls, fileBefore, writer >>
histVars == << loaded, opDone, failures >>
runVars == << reported, done >>

\* How an operation that returned r ended.
Ended(r) == IF r.ok THEN "ok" ELSE "err"

Ok == [ok |-> TRUE, errors |-> <<>>]
Err(errors) == [ok |-> FALSE, errors |-> errors]

NoName == "<none>"
Command(op, name, path) == [op |-> op, name |-> name, path |-> path]
\* enum Commands, without GenCompletion and GenMan (they build no Interface).
Commands ==
    { Command("add", n, p) : n \in Names, p \in ArgPaths }
    \cup { Command(op, n, <<>>) :
             op \in {"enable", "disable", "remove", "update", "info"}, n \in Names }
    \cup { Command("update", NoName, <<>>) }
    \cup { Command("list", f, <<>>) : f \in {"all", "enabled", "disabled"} }

NoWriter == [open |-> FALSE, file |-> "", buf |-> <<>>, header |-> FALSE]
NoOutput == [spawned |-> FALSE, kind |-> 0, success |-> FALSE, stderr |-> <<>>]

\* main has just started, on one of the commands.
Init ==
    /\ fs \in { [f \in FileNames |-> IF f = CONFIG_FILE THEN c ELSE NoFile] :
                c \in InitialFiles }
    /\ pc = "new"
    /\ cmd \in Commands
    /\ flakes = EmptyMap
    /\ cleaned = FALSE
    /\ res = Ok
    /\ exitCode = NoExit
    /\ stderrLog = <<>>
    /\ stdoutLog = <<>>
    /\ invocations = <<>>
    /\ cleanCalls = 0
    /\ fileBefore = NoFile
    /\ writer = NoWriter
    /\ todo = <<>>
    /\ position = 0
    /\ output = NoOutput
    /\ line_no = 0
    /\ current_error = <<>>
    /\ v = <<>>
    /\ performRes = Ok
    /\ loaded = EmptyMap
    /\ opDone = "none"
    /\ failures = 0
    /\ reported = 0
    /\ done = 0

\* The process ends: process::exit(code), or main returns.
Exit(code, log) ==
    /\ pc' = "exited"
    /\ exitCode' = code
    /\ stderrLog' = stderrLog \o log

\* ------------------------------------------------- Interface::new and init
\* init: create the file when absent, open it, insert every record.  A
\* record that does not deserialize is an Internal error; new passes any
\* error to handle_errors(e, true).
init ==
    /\ pc = "new"
    /\ LET file == IF fs[CONFIG_FILE].exists THEN fs[CONFIG_FILE] ELSE FileOf(<<>>)
           r == init_loop(records_of(file.rows), flakes, <<>>)
       IN  /\ fs' = [fs EXCEPT ![CONFIG_FILE] = file]
           /\ flakes' = r.flakes
           /\ IF r.ok
              THEN /\ pc' = "dispatch"
                   /\ stderrLog' = stderrLog \o r.warns
                   /\ UNCHANGED exitCode
              ELSE LET h == handle_errors(<<ErrInternal("csv")>>, TRUE)
                   IN  Exit(h.exit, r.warns \o h.log)
    /\ UNCHANGED << cmd, cleaned, res, stdoutLog, invocations, todo, position >>
    /\ UNCHANGED performVars
    /\ UNCHANGED cleanVars
    /\ loaded' = IF pc' = "dispatch" THEN flakes' ELSE EmptyMap
    /\ UNCHANGED << opDone, failures >>
    /\ UNCHANGED runVars

\* init when the directory or file cannot be created, or the file opened.
init_io_error ==
    /\ pc = "new"
    /\ LET h == handle_errors(<<ErrIo(PermissionDenied, "config_dir")>>, TRUE)
       IN  Exit(h.exit, h.log)
    /\ UNCHANGED << fs, cmd, flakes, cleaned, res, stdoutLog, invocations, todo, position >>
    /\ UNCHANGED performVars
    /\ UNCHANGED cleanVars
    /\ UNCHANGED histVars
    /\ UNCHANGED runVars

\* ------------------------------------------------------- println! output
OutMsg(kind, name, path, info, i, nb) ==
    [kind |-> kind, name |-> name, path |-> path, info |-> info, i |-> i, nb |-> nb]

\* ------------------------------------------------- get_flake, get_flake_mut
get_flake(name) ==
    IF name \in DOMAIN flakes THEN Ok ELSE Err(<<ErrMissingFlake(name)>>)

\* -------------------------------------------- the commands without nix
\* enable_flake that sets the flag of every entry, not only of the one named.
enable_flake_all ==
    /\ pc = "dispatch" /\ cmd.op = "enable"
    /\ LET found == get_flake(cmd.name) IN
       IF ~found.ok
       THEN /\ res' = found
            /\ UNCHANGED << flakes, stderrLog >>
       ELSE LET should_warn == flakes[cmd.name].enabled IN
            /\ flakes' = [n \in DOMAIN flakes |-> [flakes[n] EXCEPT !.enabled = TRUE]]
            /\ stderrLog' =
                 IF should_warn
                 THEN Append(stderrLog, WarnMsg("AlreadyEnabled", cmd.name, <<>>))
                 ELSE stderrLog
            /\ res' = Ok
    /\ pc' = "main_res"
    /\ UNCHANGED << fs, cmd, cleaned, exitCode, stdoutLog, invocations, todo, position >>
    /\ UNCHANGED performVars
    /\ UNCHANGED cleanVars
    /\ opDone' = Ended(res')
    /\ UNCHANGED << loaded, failures >>
    /\ UNCHANGED runVars

\* enable_flake that registers a name it does not find, instead of failing.
enable_flake_creating ==
    /\ pc = "dispatch" /\ cmd.op = "enable"
    /\ LET found == get_flake(cmd.name) IN
       IF ~found.ok
       THEN /\ flakes' = map_insert(flakes, cmd.name, [path |-> Cwd, enabled |-> TRUE])
            /\ res' = Ok
            /\ UNCHANGED stderrLog
       ELSE LET should_warn == flakes[cmd.name].enabled IN
            /\ flakes' = [flakes EXCEPT ![cmd.name].enabled = TRUE]
            /\ stderrLog' =
                 IF should_warn
                 THEN Append(stderrLog, WarnMsg("AlreadyEnabled", cmd.name, <<>>))
                 ELSE stderrLog
            /\ res' = Ok
    /\ pc' = "main_res"
    /\ UNCHANGED << fs, cmd, cleaned, exitCode, stdoutLog, invocations, todo, position >>
    /\ UNCHANGED performVars
    /\ UNCHANGED cleanVars
    /\ opDone' = Ended(res')
    /\ UNCHANGED << loaded, failures >>
    /\ UNCHANGED runVars

\* enable_flake: the flag is set; a flag that was set already is reported.
enable_flake ==
    /\ pc = "dispatch" /\ cmd.op = "enable"
    /\ LET found == get_flake(cmd.name) IN
       IF ~found.ok
       THEN /\ res' = found
            /\ UNCHANGED << flakes, stderrLog >>
       ELSE LET should_warn == flakes[cmd.name].enabled IN
            /\ flakes' = [flakes EXCEPT ![cmd.name].enabled = TRUE]
            /\ stderrLog' =
                 IF should_warn
                 THEN Append(stderrLog, WarnMsg("AlreadyEnabled", cmd.name, <<>>))
                 ELSE stderrLog
            /\ res' = Ok
    /\ pc' = "main_res"
    /\ UNCHANGED << fs, cmd, cleaned, exitCode, stdoutLog, invocations, todo, position >>
    /\ UNCHANGED performVars
    /\ UNCHANGED cleanVars
    /\ opDone' = Ended(res')
    /\ UNCHANGED << loaded, failures >>
    /\ UNCHANGED runVars

\* disable_flake without the warning of a flag that was clear already.
disable_flake_silent ==
    /\ pc = "dispatch" /\ cmd.op = "disable"
    /\ LET found == get_flake(cmd.name) IN
       IF ~found.ok
       THEN /\ res' = found
            /\ UNCHANGED << flakes, stderrLog >>
       ELSE /\ flakes' = [flakes EXCEPT ![cmd.name].enabled = FALSE]
            /\ stderrLog' = stderrLog
            /\ res' = Ok
    /\ pc' = "main_res"
    /\ UNCHANGED << fs, cmd, cleaned, exitCode, stdoutLog, invocations, todo, position >>
    /\ UNCHANGED performVars
    /\ UNCHANGED cleanVars
    /\ opDone' = Ended(res')
    /\ UNCHANGED << loaded, failures >>
    /\ UNCHANGED runVars

\* disable_flake: the flag is cleared; a flag that was clear already is reported.
disable_flake ==
    /\ pc = "dispatch" /\ cmd.op = "disable"
    /\ LET found == get_flake(cmd.name) IN
       IF ~found.ok
       THEN /\ res' = found
            /\ UNCHANGED << flakes, stderrLog >>
       ELSE LET should_warn == ~flakes[cmd.name].enabled IN
            /\ flakes' = [flakes EXCEPT ![cmd.name].enabled = FALSE]
            /\ stderrLog' =
                 IF should_warn
                 THEN Append(stderrLog, WarnMsg("AlreadyDisabled", cmd.name, <<>>))
                 ELSE stderrLog
            /\ res' = Ok
    /\ pc' = "main_res"
    /\ UNCHANGED << fs, cmd, cleaned, exitCode, stdoutLog, invocations, todo, position >>
    /\ UNCHANGED performVars
    /\ UNCHANGED cleanVars
    /\ opDone' = Ended(res')
    /\ UNCHANGED << loaded, failures >>
    /\ UNCHANGED runVars

\* remove_flake that fails on a name with no entry, as enable and disable do.
remove_flake_strict ==
    /\ pc = "dispatch" /\ cmd.op = "remove"
    /\ IF cmd.name \in DOMAIN flakes
       THEN /\ flakes' = map_remove(flakes, cmd.name)
            /\ res' = Ok
       ELSE /\ res' = Err(<<ErrMissingFlake(cmd.name)>>)
            /\ UNCHANGED flakes
    /\ UNCHANGED stderrLog
    /\ pc' = "main_res"
    /\ UNCHANGED << fs, cmd, cleaned, exitCode, stdoutLog, invocations, todo, position >>
    /\ UNCHANGED performVars
    /\ UNCHANGED cleanVars
    /\ opDone' = Ended(res')
    /\ UNCHANGED << loaded, failures >>
    /\ UNCHANGED runVars

\* remove_flake: the entry is removed; a name with no entry is reported.
remove_flake ==
    /\ pc = "dispatch" /\ cmd.op = "remove"
    /\ IF cmd.name \in DOMAIN flakes
       THEN /\ flakes' = map_remove(flakes, cmd.name)
            /\ UNCHANGED stderrLog
       ELSE /\ stderrLog' = Append(stderrLog, WarnMsg("DoesNotExist", cmd.name, <<>>))
            /\ UNCHANGED flakes
    /\ res' = Ok
    /\ pc' = "main_res"
    /\ UNCHANGED << fs, cmd, cleaned, exitCode, stdoutLog, invocations, todo, position >>
    /\ UNCHANGED performVars
    /\ UNCHANGED cleanVars
    /\ opDone' = Ended(res')
    /\ UNCHANGED << loaded, failures >>
    /\ UNCHANGED runVars

\* The line list_flakes prints for an entry, <<>> when it is not selected.
list_line(name, filter) ==
    LET flake == flakes[name]
        some_filter == filter # "all"
        selected ==
            \/ ~some_filter
            \/ (filter = "enabled" /\ flake.enabled)
            \/ (filter = "disabled" /\ ~flake.enabled)
        info ==
            IF ~some_filter
            THEN (IF flake.enabled THEN " enabled" ELSE " disabled")
            ELSE ""
    IN  IF selected THEN <<OutMsg("list", name, flake.path, info, 0, 0)>> ELSE <<>>

RECURSIVE list_lines(_, _)
list_lines(order, filter) ==
    IF order = <<>> THEN <<>>
    ELSE list_line(Head(order), filter) \o list_lines(Tail(order), filter)

\* list_flakes: one line per selected entry, in the map's iteration order.
list_flakes ==
    /\ pc = "dispatch" /\ cmd.op = "list"
    /\ \E order \in Orders(DOMAIN flakes) :
         stdoutLog' = stdoutLog \o list_lines(order, cmd.name)
    /\ res' = Ok
    /\ pc' = "main_res"
    /\ UNCHANGED << fs, cmd, flakes, cleaned, exitCode, stderrLog, invocations, todo, position >>
    /\ UNCHANGED performVars
    /\ UNCHANGED cleanVars
    /\ opDone' = Ended(res')
    /\ UNCHANGED << loaded, failures >>
    /\ UNCHANGED runVars

\* info_flake: the entry's line, or MissingFlake.
info_flake ==
    /\ pc = "dispatch" /\ cmd.op = "info"
    /\ LET found == get_flake(cmd.name) IN
       IF ~found.ok
       THEN /\ res' = found
            /\ UNCHANGED stdoutLog
       ELSE /\ stdoutLog' =
                 Append(stdoutLog,
                        OutMsg("info", cmd.name, flakes[cmd.name].path,
                               IF flakes[cmd.name].enabled THEN "enabled" ELSE "disabled",
                               0, 0))
            /\ res' = Ok
    /\ pc' = "main_res"
    /\ UNCHANGED << fs, cmd, flakes, cleaned, exitCode, stderrLog, invocations, todo, position >>
    /\ UNCHANGED performVars
    /\ UNCHANGED cleanVars
    /\ opDone' = Ended(res')
    /\ UNCHANGED << loaded, failures >>
    /\ UNCHANGED runVars

\* ------------------------------------------------------------------ clean
\* What csv::Writer holds in its buffer reaches the file it was created on.
Flush(files, w) ==
    IF w.open THEN [files EXCEPT ![w.file].rows = @ \o w.buf] ELSE files

\* fs::rename: the file named `from` becomes the file named `to`.
Rename(files, from, to) ==
    IF from = to THEN files
    ELSE [files EXCEPT ![to] = files[from], ![from] = NoFile]

\* File::create(&tmp_path) and csv::Writer::from_writer(file); the loop
\* over &self.flakes starts, in one of the map's iteration orders.
clean_create ==
    /\ pc = "clean"
    /\ fs' = [fs EXCEPT ![tmp_path] = FileOf(<<>>)]
    /\ writer' = [open |-> TRUE, file |-> tmp_path, buf |-> <<>>, header |-> FALSE]
    /\ todo' \in Orders(DOMAIN flakes)
    /\ pc' = "clean_write"
    /\ UNCHANGED << cmd, flakes, cleaned, res, exitCode, stderrLog, stdoutLog,
                    invocations, position, cleanCalls, fileBefore >>
    /\ UNCHANGED performVars
    /\ UNCHANGED histVars
    /\ UNCHANGED runVars

\* File::create fails: clean returns the Io error.
clean_create_error ==
    /\ pc = "clean"
    /\ res' = Err(<<ErrIo(PermissionDenied, tmp_path)>>)
    /\ pc' = "main_end"
    /\ UNCHANGED << fs, cmd, flakes, cleaned, exitCode, stderrLog, stdoutLog,
                    invocations, todo, position >>
    /\ UNCHANGED performVars
    /\ UNCHANGED cleanVars
    /\ UNCHANGED histVars
    /\ UNCHANGED runVars

\* writer.serialize(named_flake) for the next entry.  The first record is
\* preceded by the header row.  The rows stay in the writer's buffer (8 KiB,
\* which the rows of a registry of this size never fill).  A path that is
\* not UTF-8 does not serialize: clean returns an Internal error, dropping
\* the writer.
clean_serialize ==
    /\ pc = "clean_write" /\ todo # <<>>
    /\ LET name == Head(todo)
           flake == flakes[name]
           buf == writer.buf
                  \o (IF writer.header THEN <<>> ELSE <<Header>>)
                  \o <<SerializeRow(name, flake)>>
       IN  IF ~is_utf8(flake.path)
           THEN /\ fs' = Flush(fs, writer)
                /\ writer' = NoWriter
                /\ todo' = <<>>
                /\ res' = Err(<<ErrInternal("csv")>>)
                /\ pc' = "main_end"
           ELSE /\ writer' = [writer EXCEPT !.buf = buf, !.header = TRUE]
                /\ fs' = fs
                /\ todo' = Tail(todo)
                /\ UNCHANGED << res, pc >>
    /\ UNCHANGED << cmd, flakes, cleaned, exitCode, stderrLog, stdoutLog,
                    invocations, position, cleanCalls, fileBefore >>
    /\ UNCHANGED performVars
    /\ UNCHANGED histVars
    /\ UNCHANGED runVars

\* fs::rename(&tmp_path, &self.config_path), with the writer still alive:
\* the file it writes to is now the storage file.
clean_rename ==
    /\ pc = "clean_write" /\ todo = <<>>
    /\ fs' = Rename(fs, tmp_path, CONFIG_FILE)
    /\ writer' = [writer EXCEPT !.file = IF @ = tmp_path THEN CONFIG_FILE ELSE @]
    /\ pc' = "clean_renamed"
    /\ UNCHANGED << cmd, flakes, cleaned, res, exitCode, stderrLog, stdoutLog,
                    invocations, todo, position, cleanCalls, fileBefore >>
    /\ UNCHANGED performVars
    /\ UNCHANGED histVars
    /\ UNCHANGED runVars

\* fs::rename fails: clean returns the Io error, dropping the writer.
clean_rename_error ==
    /\ pc = "clean_write" /\ todo = <<>>
    /\ fs' = Flush(fs, writer)
    /\ writer' = NoWriter
    /\ res' = Err(<<ErrIo(PermissionDenied, tmp_path)>>)
    /\ pc' = "main_end"
    /\ UNCHANGED << cmd, flakes, cleaned, exitCode, stderrLog, stdoutLog,
                    invocations, todo, position, cleanCalls, fileBefore >>
    /\ UNCHANGED performVars
    /\ UNCHANGED histVars
    /\ UNCHANGED runVars

\* self.cleaned = true; Ok(()): the writer goes out of scope, and its Drop
\* writes the buffer to the file.
clean_return ==
    /\ pc = "clean_renamed"
    /\ cleaned' = TRUE
    /\ fs' = Flush(fs, writer)
    /\ writer' = NoWriter
    /\ res' = Ok
    /\ pc' = "main_end"
    /\ UNCHANGED << cmd, flakes, exitCode, stderrLog, stdoutLog,
                    invocations, todo, position, cleanCalls, fileBefore >>
    /\ UNCHANGED performVars
    /\ UNCHANGED histVars
    /\ UNCHANGED runVars

\* The process is killed inside clean: nothing more is written, and what
\* the writer still buffers is lost.
Killed == 128 + 9
interrupt ==
    /\ pc \in {"clean", "clean_write", "clean_renamed"}
    /\ pc' = "exited"
    /\ exitCode' = Killed
    /\ UNCHANGED << fs, cmd, flakes, cleaned, res, stderrLog, stdoutLog,
                    invocations, todo, position >>
    /\ UNCHANGED performVars
    /\ UNCHANGED cleanVars
    /\ UNCHANGED histVars
    /\ UNCHANGED runVars

\* ------------------------------------------------------------------- main
\* A main that never calls clean.
main_without_clean ==
    /\ pc = "main_res"
    /\ pc' = "main_end"
    /\ UNCHANGED << fs, cmd, flakes, cleaned, res, exitCode, stderrLog, stdoutLog,
                    invocations, todo, position >>
    /\ UNCHANGED performVars
    /\ UNCHANGED cleanVars
    /\ UNCHANGED histVars
    /\ UNCHANGED runVars

\* let res = res.and_then(|()| interface.clean()): clean is entered when
\* the command returned Ok, and only then.
main_and_then ==
    /\ pc = "main_res"
    /\ IF res.ok
       THEN /\ pc' = "clean"
            /\ cleanCalls' = cleanCalls + 1
            /\ fileBefore' = fs[CONFIG_FILE]
       ELSE /\ pc' = "main_end"
            /\ UNCHANGED << cleanCalls, fileBefore >>
    /\ UNCHANGED << fs, cmd, flakes, cleaned, res, exitCode, stderrLog, stdoutLog,
                    invocations, todo, position, writer >>
    /\ UNCHANGED performVars
    /\ UNCHANGED histVars
    /\ UNCHANGED runVars

\* A Drop that lets an Interface that was not cleaned go without a word.
drop_interface_silent(was_cleaned) ==
    [log |-> <<>>, exit |-> 0]

\* impl Drop for Interface: an Interface that was not cleaned reports an
\* Internal error and exits with 1; otherwise main returns, with code 0.
drop_interface(was_cleaned) ==
    IF ~was_cleaned
    THEN handle_errors(<<ErrInternal("unexpected exit")>>, TRUE)
    ELSE [log |-> <<>>, exit |-> 0]

\* if let Err(errors) = res { handle_errors(errors, true, ..) }, then the
\* end of main, where interface is dropped.
main_end ==
    /\ pc = "main_end"
    /\ LET h == IF res.ok THEN [log |-> <<>>, exit |-> NoExit]
                ELSE handle_errors(res.errors, TRUE)
           d == drop_interface(cleaned)
       IN  IF h.exit # NoExit
           THEN Exit(h.exit, h.log)
           ELSE Exit(d.exit, h.log \o d.log)
    /\ UNCHANGED << fs, cmd, flakes, cleaned, res, stdoutLog, invocations, todo, position >>
    /\ UNCHANGED performVars
    /\ UNCHANGED cleanVars
    /\ UNCHANGED histVars
    /\ UNCHANGED runVars

\* The process is gone: of its state, only the files remain. The command line
\* stays in the shell's history, with how many times in a row it has succeeded.
ProcessGone ==
    /\ pc = "exited"
    /\ pc' = "idle"
    /\ cmd' = cmd
    /\ done' = IF exitCode = 0 THEN done + 1 ELSE 0
    /\ reported' = 0
    /\ flakes' = EmptyMap
    /\ cleaned' = FALSE
    /\ res' = Ok
    /\ exitCode' = NoExit
    /\ stderrLog' = <<>>
    /\ stdoutLog' = <<>>
    /\ invocations' = <<>>
    /\ cleanCalls' = 0
    /\ fileBefore' = NoFile
    /\ writer' = NoWriter
    /\ todo' = <<>>
    /\ position' = 0
    /\ output' = NoOutput
    /\ line_no' = 0
    /\ current_error' = <<>>
    /\ v' = <<>>
    /\ performRes' = Ok
    /\ loaded' = EmptyMap
    /\ opDone' = "none"
    /\ failures' = 0
    /\ UNCHANGED fs

\* The user runs the next command: main starts, on the files as they are.
NewProcess ==
    /\ pc = "idle"
    /\ pc' = "new"
    /\ cmd' \in Commands
    /\ flakes' = EmptyMap
    /\ cleaned' = FALSE
    /\ res' = Ok
    /\ exitCode' = NoExit
    /\ stderrLog' = <<>>
    /\ stdoutLog' = <<>>
    /\ invocations' = <<>>
    /\ cleanCalls' = 0
    /\ fileBefore' = NoFile
    /\ writer' = NoWriter
    /\ todo' = <<>>
    /\ position' = 0
    /\ output' = NoOutput
    /\ line_no' = 0
    /\ current_error' = <<>>
    /\ v' = <<>>
    /\ performRes' = Ok
    /\ done' = 0
    /\ UNCHANGED fs
    /\ UNCHANGED histVars
    /\ UNCHANGED reported

\* The user runs the same command line once more, on the files as they are.
NewProcessAgain ==
    /\ pc = "idle"
    /\ done < MaxRuns
    /\ pc' = "new"
    /\ flakes' = EmptyMap
    /\ cleaned' = FALSE
    /\ res' = Ok
    /\ exitCode' = NoExit
    /\ stderrLog' = <<>>
    /\ stdoutLog' = <<>>
    /\ invocations' = <<>>
    /\ cleanCalls' = 0
    /\ fileBefore' = NoFile
    /\ writer' = NoWriter
    /\ todo' = <<>>
    /\ position' = 0
    /\ output' = NoOutput
    /\ line_no' = 0
    /\ current_error' = <<>>
    /\ v' = <<>>
    /\ performRes' = Ok
    /\ UNCHANGED << fs, cmd >>
    /\ UNCHANGED histVars
    /\ UNCHANGED runVars

\* ---------------------------------------------------------------- perform
\* What cmd.output() may give: the spawn fails, or nix runs and exits with
\* or without success, having written `stderr`.
Outputs(lines, n) ==
    { [spawned |-> FALSE, kind |-> k, success |-> FALSE, stderr |-> <<>>] :
        k \in {NotFound, PermissionDenied} }
    \cup { [spawned |-> TRUE, kind |-> 0, success |-> ok, stderr |-> err] :
             ok \in BOOLEAN, err \in BoundedSeq(lines, n) }

\* BufRead::lines yields an Err for a line that is not valid UTF-8.
line_ok(line) == line # <<"<ff>">>

\* push_error: an open error is taken and pushed to v as Error::Nix.
push_error(cur, errs) == IF cur # <<>> THEN Append(errs, ErrNix(cur)) ELSE errs

\* A loop body in which a warning line leaves the open error open.
classify_line_keeping_open(cur, errs, line) ==
    IF starts_with(line, "error:")
    THEN [cur |-> <<trim(line)>>, v |-> push_error(cur, errs), warns |-> <<>>]
    ELSE IF starts_with(line, "warning:")
    THEN [cur |-> cur, v |-> errs,
          warns |-> <<WarnMsg("nix", "", <<trim(line)>>)>>]
    ELSE IF cur # <<>>
    THEN [cur |-> Append(cur, trim(line)), v |-> errs, warns |-> <<>>]
    ELSE [cur |-> <<>>, v |-> errs, warns |-> <<WarnMsg("nix", "", <<trim(line)>>)>>]

\* A loop body in which an error line replaces the open error without
\* pushing it.
classify_line_losing_error(cur, errs, line) ==
    IF starts_with(line, "error:")
    THEN [cur |-> <<trim(line)>>, v |-> errs, warns |-> <<>>]
    ELSE IF starts_with(line, "warning:")
    THEN [cur |-> <<>>, v |-> push_error(cur, errs),
          warns |-> <<WarnMsg("nix", "", <<trim(line)>>)>>]
    ELSE IF cur # <<>>
    THEN [cur |-> Append(cur, trim(line)), v |-> errs, warns |-> <<>>]
    ELSE [cur |-> <<>>, v |-> errs, warns |-> <<WarnMsg("nix", "", <<trim(line)>>)>>]

\* The body of the loop over output.stderr.lines() for one line: the new
\* current_error, the new v, and what was warned.
classify_line(cur, errs, line) ==
    IF starts_with(line, "error:")
    THEN [cur |-> <<trim(line)>>, v |-> push_error(cur, errs), warns |-> <<>>]
    ELSE IF starts_with(line, "warning:")
    THEN [cur |-> <<>>, v |-> push_error(cur, errs),
          warns |-> <<WarnMsg("nix", "", <<trim(line)>>)>>]
    ELSE IF cur # <<>>
    THEN [cur |-> Append(cur, trim(line)), v |-> errs, warns |-> <<>>]
    ELSE [cur |-> <<>>, v |-> errs, warns |-> <<WarnMsg("nix", "", <<trim(line)>>)>>]

\* cmd.output() fails: perform returns the Io error.
perform_spawn_error ==
    /\ pc = "perform"
    /\ \E out \in Outputs(SpecLines, MaxStderr) :
         /\ ~out.spawned
         /\ output' = out
         /\ performRes' = Err(<<ErrIo(out.kind, "shell")>>)
    /\ pc' = "perform_done"
    /\ UNCHANGED << fs, cmd, flakes, cleaned, res, exitCode, stderrLog, stdoutLog,
                    invocations, todo, position, line_no, current_error, v >>
    /\ UNCHANGED cleanVars
    /\ UNCHANGED histVars
    /\ UNCHANGED runVars

\* output.status.success(): perform returns Ok(()) without reading stderr.
perform_success ==
    /\ pc = "perform"
    /\ \E out \in Outputs(SpecLines, MaxStderr) :
         /\ out.spawned /\ out.success
         /\ output' = out
    /\ performRes' = Ok
    /\ pc' = "perform_done"
    /\ UNCHANGED << fs, cmd, flakes, cleaned, res, exitCode, stderrLog, stdoutLog,
                    invocations, todo, position, line_no, current_error, v >>
    /\ UNCHANGED cleanVars
    /\ UNCHANGED histVars
    /\ UNCHANGED runVars

\* !output.status.success(): the loop over the lines of stderr starts.
perform_failure ==
    /\ pc = "perform"
    /\ \E out \in Outputs(SpecLines, MaxStderr) :
         /\ out.spawned /\ ~out.success
         /\ output' = out
    /\ v' = <<>>
    /\ current_error' = <<>>
    /\ line_no' = 0
    /\ pc' = "perform_loop"
    /\ UNCHANGED << fs, cmd, flakes, cleaned, res, exitCode, stderrLog, stdoutLog,
                    invocations, todo, position, performRes >>
    /\ UNCHANGED cleanVars
    /\ failures' = failures + 1
    /\ UNCHANGED << loaded, opDone >>
    /\ UNCHANGED runVars

\* One iteration of the loop, on a line that is valid UTF-8.
perform_line ==
    /\ pc = "perform_loop" /\ line_no < Len(output.stderr)
    /\ line_ok(output.stderr[line_no + 1])
    /\ LET c == classify_line(current_error, v, output.stderr[line_no + 1]) IN
         /\ current_error' = c.cur
         /\ v' = c.v
         /\ stderrLog' = stderrLog \o c.warns
    /\ line_no' = line_no + 1
    /\ UNCHANGED << fs, pc, cmd, flakes, cleaned, res, exitCode, stdoutLog,
                    invocations, todo, position, output, performRes >>
    /\ UNCHANGED cleanVars
    /\ UNCHANGED histVars
    /\ UNCHANGED runVars

\* A line that is not valid UTF-8: perform returns the Io error at once.
perform_line_error ==
    /\ pc = "perform_loop" /\ line_no < Len(output.stderr)
    /\ ~line_ok(output.stderr[line_no + 1])
    /\ performRes' = Err(<<ErrIo(InvalidData, "nix")>>)
    /\ pc' = "perform_done"
    /\ UNCHANGED << fs, cmd, flakes, cleaned, res, exitCode, stderrLog, stdoutLog,
                    invocations, todo, position, output, line_no, current_error, v >>
    /\ UNCHANGED cleanVars
    /\ UNCHANGED histVars
    /\ UNCHANGED runVars

\* The end of the stream: the open error is pushed and perform returns Err(v).
perform_return ==
    /\ pc = "perform_loop" /\ line_no = Len(output.stderr)
    /\ v' = push_error(current_error, v)
    /\ current_error' = <<>>
    /\ performRes' = Err(v')
    /\ pc' = "perform_done"
    /\ UNCHANGED << fs, cmd, flakes, cleaned, res, exitCode, stderrLog, stdoutLog,
                    invocations, todo, position, output, line_no >>
    /\ UNCHANGED cleanVars
    /\ UNCHANGED histVars
    /\ UNCHANGED runVars

\* The locals of perform once its caller has taken the result.
PerformLeft ==
    /\ output' = NoOutput
    /\ line_no' = 0
    /\ current_error' = <<>>
    /\ v' = <<>>
    /\ performRes' = Ok

\* check_flake runs `nix flake show path`, update_flake `nix flake update path`.
Invocation(tool, path) == [tool |-> tool, path |-> path]

\* -------------------------------------------------------------- add_flake
\* An add_flake that does not look for the name.
add_flake_unchecked_name ==
    /\ pc = "dispatch" /\ cmd.op = "add"
    /\ invocations' = Append(invocations, Invocation("show", cmd.path))
    /\ pc' = "perform"
    /\ UNCHANGED << fs, cmd, flakes, cleaned, res, exitCode, stderrLog, stdoutLog, todo, position >>
    /\ UNCHANGED performVars
    /\ UNCHANGED cleanVars
    /\ UNCHANGED histVars
    /\ UNCHANGED runVars

\* A tracked name is refused; otherwise check_flake(&path) is called.
add_flake ==
    /\ pc = "dispatch" /\ cmd.op = "add"
    /\ IF cmd.name \in DOMAIN flakes
       THEN /\ res' = Err(<<ErrTrackedFlake(cmd.name)>>)
            /\ pc' = "main_res"
            /\ UNCHANGED invocations
       ELSE /\ invocations' = Append(invocations, Invocation("show", cmd.path))
            /\ pc' = "perform"
            /\ UNCHANGED res
    /\ UNCHANGED << fs, cmd, flakes, cleaned, exitCode, stderrLog, stdoutLog, todo, position >>
    /\ UNCHANGED performVars
    /\ UNCHANGED cleanVars
    /\ opDone' = IF pc' = "main_res" THEN Ended(res') ELSE opDone
    /\ UNCHANGED << loaded, failures >>
    /\ UNCHANGED runVars

\* An add_flake that ignores what check_flake returned.
add_flake_ignoring_check ==
    /\ pc = "perform_done" /\ cmd.op = "add"
    /\ flakes' = map_insert(flakes, cmd.name,
                            [path |-> absolute(cmd.path).path, enabled |-> TRUE])
    /\ res' = Ok
    /\ pc' = "main_res"
    /\ PerformLeft
    /\ opDone' = "ok"
    /\ UNCHANGED << fs, cmd, cleaned, exitCode, stderrLog, stdoutLog, invocations, todo, position >>
    /\ UNCHANGED cleanVars
    /\ UNCHANGED << loaded, failures >>
    /\ UNCHANGED runVars

\* self.check_flake(&path)? and the rest of add_flake: the entry is
\* inserted, enabled, under its absolute path.
add_flake_checked ==
    /\ pc = "perform_done" /\ cmd.op = "add"
    /\ LET abs == absolute(cmd.path) IN
       IF ~performRes.ok
       THEN /\ res' = performRes
            /\ UNCHANGED flakes
       ELSE IF ~abs.ok
       THEN /\ res' = Err(<<ErrIo(InvalidInput, "path")>>)
            /\ UNCHANGED flakes
       ELSE /\ flakes' = map_insert(flakes, cmd.name, [path |-> abs.path, enabled |-> TRUE])
            /\ res' = Ok
    /\ pc' = "main_res"
    /\ PerformLeft
    /\ UNCHANGED << fs, cmd, cleaned, exitCode, stderrLog, stdoutLog, invocations, todo, position >>
    /\ UNCHANGED cleanVars
    /\ opDone' = Ended(res')
    /\ UNCHANGED << loaded, failures >>
    /\ UNCHANGED runVars

\* ---------------------------------------------------------- update_flakes
\* update_flakes_one without `if flake.enabled`: a disabled flake is updated
\* like an enabled one.
update_flakes_one_any ==
    /\ pc = "dispatch" /\ cmd.op = "update" /\ cmd.name # NoName
    /\ IF cmd.name \notin DOMAIN flakes
       THEN LET h == handle_errors(<<ErrNoFlake(cmd.name)>>, TRUE) IN
            /\ Exit(h.exit, h.log)
            /\ UNCHANGED << res, stdoutLog, invocations >>
       ELSE /\ stdoutLog' =
                 Append(stdoutLog, OutMsg("updating", cmd.name, flakes[cmd.name].path, "", 0, 0))
            /\ invocations' = Append(invocations, Invocation("update", flakes[cmd.name].path))
            /\ pc' = "perform"
            /\ UNCHANGED << res, exitCode, stderrLog >>
    /\ UNCHANGED << fs, cmd, flakes, cleaned, todo, position >>
    /\ UNCHANGED performVars
    /\ UNCHANGED cleanVars
    /\ opDone' = IF pc' = "exited" THEN "fatal" ELSE opDone
    /\ UNCHANGED << loaded, failures >>
    /\ UNCHANGED runVars

\* update_flakes(Some(name)): an unknown name is fatal at once; an enabled
\* flake is announced and updated; a disabled one is left alone.
update_flakes_one ==
    /\ pc = "dispatch" /\ cmd.op = "update" /\ cmd.name # NoName
    /\ IF cmd.name \notin DOMAIN flakes
       THEN LET h == handle_errors(<<ErrNoFlake(cmd.name)>>, TRUE) IN
            /\ Exit(h.exit, h.log)
            /\ UNCHANGED << res, stdoutLog, invocations >>
       ELSE IF flakes[cmd.name].enabled
       THEN /\ stdoutLog' =
                 Append(stdoutLog, OutMsg("updating", cmd.name, flakes[cmd.name].path, "", 0, 0))
            /\ invocations' = Append(invocations, Invocation("update", flakes[cmd.name].path))
            /\ pc' = "perform"
            /\ UNCHANGED << res, exitCode, stderrLog >>
       ELSE /\ res' = Ok
            /\ pc' = "main_res"
            /\ UNCHANGED << exitCode, stderrLog, stdoutLog, invocations >>
    /\ UNCHANGED << fs, cmd, flakes, cleaned, todo, position >>
    /\ UNCHANGED performVars
    /\ UNCHANGED cleanVars
    /\ opDone' = IF pc' = "main_res" THEN Ended(res')
                 ELSE IF pc' = "exited" THEN "fatal" ELSE opDone
    /\ UNCHANGED << loaded, failures >>
    /\ UNCHANGED runVars

\* if let Err(errors) = self.update_flake(..) { handle_errors(errors, true) }
\* and then Ok(()).
update_flakes_one_done ==
    /\ pc = "perform_done" /\ cmd.op = "update" /\ cmd.name # NoName
    /\ LET h == IF performRes.ok THEN [log |-> <<>>, exit |-> NoExit]
                ELSE handle_errors(performRes.errors, TRUE)
       IN  IF h.exit # NoExit
           THEN /\ Exit(h.exit, h.log)
                /\ UNCHANGED res
           ELSE /\ res' = Ok
                /\ pc' = "main_res"
                /\ UNCHANGED << exitCode, stderrLog >>
    /\ PerformLeft
    /\ UNCHANGED << fs, cmd, flakes, cleaned, stdoutLog, invocations, todo, position >>
    /\ UNCHANGED cleanVars
    /\ opDone' = IF pc' = "exited" THEN "fatal" ELSE Ended(res')
    /\ UNCHANGED << loaded, failures >>
    /\ UNCHANGED runVars

\* The number of enabled flakes, `nb`.
nb_enabled == Cardinality({ n \in DOMAIN flakes : flakes[n].enabled })

\* update_flakes(None): the loop over self.flakes.iter().enumerate() starts.
update_flakes_all ==
    /\ pc = "dispatch" /\ cmd.op = "update" /\ cmd.name = NoName
    /\ todo' \in Orders(DOMAIN flakes)
    /\ position' = 0
    /\ pc' = "update_loop"
    /\ UNCHANGED << fs, cmd, flakes, cleaned, res, exitCode, stderrLog, stdoutLog, invocations >>
    /\ UNCHANGED performVars
    /\ UNCHANGED cleanVars
    /\ UNCHANGED histVars
    /\ UNCHANGED runVars

\* The next entry of the loop: an enabled flake is announced with the
\* index i of enumerate() and nb, and updated; a disabled one is skipped.
update_flakes_next ==
    /\ pc = "update_loop" /\ todo # <<>>
    /\ LET name == Head(todo) IN
       IF flakes[name].enabled
       THEN /\ stdoutLog' =
                 Append(stdoutLog,
                        OutMsg("updating", name, flakes[name].path, "", position, nb_enabled))
            /\ invocations' = Append(invocations, Invocation("update", flakes[name].path))
            /\ pc' = "perform"
            /\ UNCHANGED << todo, position >>
       ELSE /\ todo' = Tail(todo)
            /\ position' = position + 1
            /\ UNCHANGED << pc, stdoutLog, invocations >>
    /\ UNCHANGED << fs, cmd, flakes, cleaned, res, exitCode, stderrLog >>
    /\ UNCHANGED performVars
    /\ UNCHANGED cleanVars
    /\ UNCHANGED histVars
    /\ UNCHANGED runVars

\* update_flakes_next_done with handle_errors(errors, true): the first entry
\* that fails ends the process.
update_flakes_next_done_fatal ==
    /\ pc = "perform_done" /\ cmd.op = "update" /\ cmd.name = NoName
    /\ LET h == IF performRes.ok THEN [log |-> <<>>, exit |-> NoExit]
                ELSE handle_errors(performRes.errors, TRUE)
       IN  IF h.exit # NoExit
           THEN /\ Exit(h.exit, h.log)
                /\ reported' = reported + 1
                /\ UNCHANGED << todo, position >>
           ELSE /\ todo' = Tail(todo)
                /\ position' = position + 1
                /\ pc' = "update_loop"
                /\ UNCHANGED << exitCode, stderrLog, reported >>
    /\ PerformLeft
    /\ UNCHANGED << fs, cmd, flakes, cleaned, res, stdoutLog, invocations >>
    /\ UNCHANGED cleanVars
    /\ UNCHANGED histVars
    /\ UNCHANGED done

\* if let Err(errors) = self.update_flake(..) { handle_errors(errors, false) }:
\* the errors are printed and the loop goes on.
update_flakes_next_done ==
    /\ pc = "perform_done" /\ cmd.op = "update" /\ cmd.name = NoName
    /\ LET h == IF performRes.ok THEN [log |-> <<>>, exit |-> NoExit]
                ELSE handle_errors(performRes.errors, FALSE)
       IN  /\ stderrLog' = stderrLog \o h.log
           /\ reported' = IF h.log # <<>> THEN reported + 1 ELSE reported
    /\ todo' = Tail(todo)
    /\ position' = position + 1
    /\ pc' = "update_loop"
    /\ PerformLeft
    /\ UNCHANGED << fs, cmd, flakes, cleaned, res, exitCode, stdoutLog, invocations >>
    /\ UNCHANGED cleanVars
    /\ UNCHANGED histVars
    /\ UNCHANGED done

\* The loop is over: Ok(()).
update_flakes_all_done ==
    /\ pc = "update_loop" /\ todo = <<>>
    /\ res' = Ok
    /\ pc' = "main_res"
    /\ UNCHANGED << fs, cmd, flakes, cleaned, exitCode, stderrLog, stdoutLog,
                    invocations, todo, position >>
    /\ UNCHANGED performVars
    /\ UNCHANGED cleanVars
    /\ opDone' = Ended(res')
    /\ UNCHANGED << loaded, failures >>
    /\ UNCHANGED runVars

\* ---------------------------------------------------------- specifications
Next ==
    \/ init
    \/ init_io_error
    \/ add_flake
    \/ add_flake_checked
    \/ enable_flake
    \/ disable_flake
    \/ remove_flake
    \/ update_flakes_one
    \/ update_flakes_one_done
    \/ update_flakes_all
    \/ update_flakes_next
    \/ update_flakes_next_done
    \/ update_flakes_all_done
    \/ list_flakes
    \/ info_flake
    \/ perform_spawn_error
    \/ perform_success
    \/ perform_failure
    \/ perform_line
    \/ perform_line_error
    \/ perform_return
    \/ main_and_then
    \/ clean_create
    \/ clean_create_error
    \/ clean_serialize
    \/ clean_rename
    \/ clean_rename_error
    \/ clean_return
    \/ interrupt
    \/ main_end
    \/ ProcessGone
    \/ NewProcess

Spec == Init /\ [][Next]_vars

\* perform alone, on every stderr of at most MaxLines lines: the state is
\* that of `update x` on the registry {x}, after nix exited without success.
InitPerform ==
    /\ fs = [f \in FileNames |->
               IF f = CONFIG_FILE
               THEN FileOf(<<Header, Row("x", <<"/", "p1">>, "true")>>)
               ELSE NoFile]
    /\ pc = "perform_loop"
    /\ cmd = Command("update", "x", <<>>)
    /\ flakes = [n \in {"x"} |-> [path |-> <<"/", "p1">>, enabled |-> TRUE]]
    /\ cleaned = FALSE
    /\ res = Ok
    /\ exitCode = NoExit
    /\ stderrLog = <<>>
    /\ stdoutLog = <<OutMsg("updating", "x", <<"/", "p1">>, "", 0, 0)>>
    /\ invocations = <<Invocation("update", <<"/", "p1">>)>>
    /\ cleanCalls = 0
    /\ fileBefore = NoFile
    /\ writer = NoWriter
    /\ todo = <<>>
    /\ position = 0
    /\ output \in { o \in Outputs(Lines, MaxLines) : o.spawned /\ ~o.success }
    /\ line_no = 0
    /\ current_error = <<>>
    /\ v = <<>>
    /\ performRes = Ok
    /\ loaded = EmptyMap
    /\ opDone = "none"
    /\ failures = 0
    /\ reported = 0
    /\ done = 0

NextPerform ==
    \/ perform_line
    \/ perform_line_error
    \/ perform_return

SpecPerform == InitPerform /\ [][NextPerform]_vars

\* The same command line run again and again: enable, disable or remove of
\* one name, from every storage file.
InitAgain ==
    /\ Init
    /\ cmd.op \in {"enable", "disable", "remove"}

NextAgain ==
    \/ init
    \/ init_io_error
    \/ enable_flake
    \/ disable_flake
    \/ remove_flake
    \/ main_and_then
    \/ clean_create
    \/ clean_create_error
    \/ clean_serialize
    \/ clean_rename
    \/ clean_rename_error
    \/ clean_return
    \/ interrupt
    \/ main_end
    \/ ProcessGone
    \/ NewProcessAgain

SpecAgain == InitAgain /\ [][NextAgain]_vars

\* ------------------------------------------------------------- properties
\* What init makes of a storage file.
LoadOf(file) == init_loop(records_of(file.rows), EmptyMap, <<>>)

\* The complete serializations of a registry: nothing for the empty one,
\* else the header and one row per entry, in any order.
RowsIn(fl, order) == [i \in 1..Len(order) |-> SerializeRow(order[i], fl[order[i]])]
CompleteFiles(fl) ==
    IF DOMAIN fl = {} THEN { <<>> }
    ELSE { <<Header>> \o RowsIn(fl, order) : order \in Orders(DOMAIN fl) }

InClean == pc \in {"clean", "clean_write", "clean_renamed"}
KilledBeforeRename ==
    pc = "exited" /\ exitCode = Killed /\ writer.open /\ writer.file # CONFIG_FILE

\* C1: at every step of clean, the storage file holds either what it held
\* when clean was entered or a complete serialization of all entries; it is
\* never empty or partial, the state right after the rename included.
C1_StorageFileNeverPartial ==
    InClean =>
        \/ fs[CONFIG_FILE] = fileBefore
        \/ (fs[CONFIG_FILE].exists /\ fs[CONFIG_FILE].rows \in CompleteFiles(flakes))

\* C2: as long as clean has not renamed the temporary file, and when the
\* process is killed before the rename, the storage file is the one clean
\* found, so the next load gives the entries that were on disk before.
C2_InterruptedBeforeRename ==
    ((pc \in {"clean", "clean_write"}) \/ KilledBeforeRename) =>
        /\ fs[CONFIG_FILE] = fileBefore
        /\ LoadOf(fs[CONFIG_FILE]) = LoadOf(fileBefore)

\* C2 happens: killed with rows written and the rename not done, while the
\* registry differs from what the file held.
C2_Witness ==
    /\ KilledBeforeRename
    /\ fs[tmp_path].exists
    /\ writer.buf # <<>>
    /\ fileBefore.rows # <<>>
    /\ LoadOf(fileBefore).flakes # flakes

\* C3: clean is entered at most once by a process, never before the
\* command's operation has returned, and exactly once when the operation
\* returned Ok, be it after a plain success or after update went past
\* failing flakes; once clean is entered the registry is not changed again.
C3_Invariant ==
    /\ cleanCalls <= 1
    /\ opDone = "none" => cleanCalls = 0
    /\ InClean => (opDone = "ok" /\ cleanCalls = 1)
    /\ (pc \in {"main_end", "exited"} /\ opDone = "ok" /\ exitCode # Killed)
           => cleanCalls = 1
C3_NoMutationAfterClean ==
    (cleanCalls = 1 /\ pc' # "idle") => flakes' = flakes
C3_CleanExactlyOnce == []C3_Invariant /\ [][C3_NoMutationAfterClean]_vars

\* C3 happens: update of all flakes went past a failing one and the process
\* ended having entered clean once.
C3_Witness ==
    /\ pc = "exited"
    /\ cmd = Command("update", NoName, <<>>)
    /\ failures >= 1
    /\ opDone = "ok"
    /\ cleanCalls = 1
    /\ cleaned

\* C4: once clean has returned Ok, init reads the storage file back into
\* exactly the registry that was saved: the same names, each with its path
\* and enabled flag, whatever the order of the rows, the empty registry
\* included, and without any duplicate warning.
C4_RoundTrip ==
    (pc \in {"main_end", "exited"} /\ cleaned) =>
        /\ LoadOf(fs[CONFIG_FILE]).ok
        /\ LoadOf(fs[CONFIG_FILE]).flakes = flakes
        /\ LoadOf(fs[CONFIG_FILE]).warns = <<>>

\* C4 happens: a registry of two entries, one of them disabled, was saved
\* over a file that held something else.
C4_Witness ==
    /\ pc = "exited" /\ cleaned
    /\ DOMAIN flakes = {"x", "y"}
    /\ ~flakes["x"].enabled /\ flakes["y"].enabled
    /\ loaded # flakes
    /\ fs[CONFIG_FILE].rows # fileBefore.rows

\* The records of the storage file as init read them, and the positions of
\* the records of a name.
RecordsRead == records_of(fs[CONFIG_FILE].rows)
PositionsOf(name) == { i \in 1..Len(RecordsRead) : RecordsRead[i].name = name }
FirstOf(name) == CHOOSE i \in PositionsOf(name) : \A j \in PositionsOf(name) : i <= j
LastOf(name) == CHOOSE i \in PositionsOf(name) : \A j \in PositionsOf(name) : j <= i
\* The record of the same name that precedes record j, 0 when there is none.
PreviousOf(j) ==
    LET before == { i \in 1..(j - 1) : RecordsRead[i].name = RecordsRead[j].name }
    IN  IF before = {} THEN 0 ELSE CHOOSE i \in before : \A k \in before : k <= i
\* The warnings of a load: one for every record that repeats a name, in file
\* order, naming the path of the record it replaces.
RECURSIVE DuplicateWarnings(_)
DuplicateWarnings(j) ==
    IF j = 0 THEN <<>>
    ELSE DuplicateWarnings(j - 1)
         \o (IF PreviousOf(j) = 0 THEN <<>>
             ELSE <<WarnMsg("Duplicate", RecordsRead[j].name,
                            <<RecordsRead[PreviousOf(j)].path>>)>>)

JustLoaded == pc = "dispatch"

\* C5 as stated: of several records with one name, the first in file order
\* is the entry kept.
C5_FirstRecordKept ==
    JustLoaded =>
        \A name \in DOMAIN flakes : flakes[name] = FlakeOfRow(RecordsRead[FirstOf(name)])

\* C5, amended: of several records with one name, the last in file order is
\* the entry kept; every earlier one is dropped, with a warning naming the
\* path of the dropped record, and loading goes on without a fatal error.
C5_LastRecordKept ==
    JustLoaded =>
        /\ DOMAIN flakes = { RecordsRead[i].name : i \in 1..Len(RecordsRead) }
        /\ \A name \in DOMAIN flakes : flakes[name] = FlakeOfRow(RecordsRead[LastOf(name)])
        /\ stderrLog = DuplicateWarnings(Len(RecordsRead))
        /\ exitCode = NoExit

\* C5 happens: two records for x with different paths and flags were loaded.
C5_Witness ==
    /\ JustLoaded
    /\ Len(RecordsRead) = 2
    /\ RecordsRead[1].name = "x" /\ RecordsRead[2].name = "x"
    /\ RecordsRead[1].path # RecordsRead[2].path
    /\ RecordsRead[1].enabled # RecordsRead[2].enabled
    /\ Len(stderrLog) = 1

\* C6: add of a name that is tracked returns TrackedFlake at once, runs no
\* nix, and leaves every entry as it was loaded, the entry of that name with
\* its path and flag included; the process ends with 1 and saves nothing.
C6_AddTrackedStep ==
    (pc = "dispatch" /\ cmd.op = "add" /\ cmd.name \in DOMAIN flakes) =>
        /\ res' = Err(<<ErrTrackedFlake(cmd.name)>>)
        /\ flakes' = flakes
        /\ invocations' = <<>>
        /\ pc' = "main_res"
C6_AddTrackedAfter ==
    (cmd.op = "add" /\ cmd.name \in DOMAIN loaded /\ opDone # "none") =>
        /\ res = Err(<<ErrTrackedFlake(cmd.name)>>)
        /\ flakes = loaded
        /\ invocations = <<>>
        /\ cleanCalls = 0
        /\ pc = "exited" => exitCode = 1
C6_AddTracked == []C6_AddTrackedAfter /\ [][C6_AddTrackedStep]_vars

\* C6 happens: add of x with another path than the tracked one has ended.
C6_Witness ==
    /\ pc = "exited" /\ cmd.op = "add" /\ cmd.name = "x"
    /\ "x" \in DOMAIN loaded
    /\ ~loaded["x"].enabled
    /\ absolute(cmd.path).path # loaded["x"].path
    /\ stderrLog = <<ErrorMsg(ErrTrackedFlake("x"))>>

\* nix ran and exited without success / with success.
NixFailed == output.spawned /\ ~output.success
NixSucceeded == output.spawned /\ output.success

\* C7: add of a new name runs nix exactly once, `flake show` on the path
\* given; the entry is inserted, enabled and under the absolute path, if
\* and only if that run succeeded; when nix exits without success the
\* registry stays as it was, clean is not entered and the storage file still
\* holds the entries that were loaded.
C7_AddCheckedStep ==
    (pc = "perform_done" /\ cmd.op = "add") =>
        /\ invocations = <<Invocation("show", cmd.path)>>
        /\ IF NixSucceeded
           THEN /\ DOMAIN flakes' = DOMAIN flakes \cup {cmd.name}
                /\ flakes'[cmd.name] = [path |-> absolute(cmd.path).path, enabled |-> TRUE]
                /\ \A n \in DOMAIN flakes : flakes'[n] = flakes[n]
           ELSE /\ flakes' = flakes
                /\ ~res'.ok
C7_AddNewAfter ==
    (cmd.op = "add" /\ opDone # "none" /\ cmd.name \notin DOMAIN loaded) =>
        /\ invocations = <<Invocation("show", cmd.path)>>
        /\ (cmd.name \in DOMAIN flakes) <=> (opDone = "ok")
        /\ opDone # "ok" =>
              (flakes = loaded /\ cleanCalls = 0
               /\ LoadOf(fs[CONFIG_FILE]).flakes = loaded)
C7_AddNew == []C7_AddNewAfter /\ [][C7_AddCheckedStep]_vars

\* C7 happens: add of a new name with a relative path was checked, inserted
\* and saved.
C7_Witness ==
    /\ pc = "exited" /\ exitCode = 0 /\ cleaned
    /\ cmd = Command("add", "y", <<"rel">>)
    /\ DOMAIN loaded = {"x"}
    /\ flakes["y"] = [path |-> <<"/", "cwd", "rel">>, enabled |-> TRUE]
    /\ LoadOf(fs[CONFIG_FILE]).flakes = flakes

\* C8: an invocation of nix that exits without success makes perform
\* return an Err whose list of errors is not empty.
C8_FailureHasErrors ==
    (pc = "perform_done" /\ NixFailed) =>
        (~performRes.ok /\ performRes.errors # <<>>)

\* The process printed the Internal "unexpected exit" error of Drop.
ReportedInternal ==
    \E i \in 1..Len(stderrLog) : stderrLog[i] = ErrorMsg(ErrInternal("unexpected exit"))

\* The process stopped on a line of stderr that is not valid UTF-8.
ReportedInvalidLine ==
    \E i \in 1..Len(stderrLog) : stderrLog[i] = ErrorMsg(ErrIo(InvalidData, "nix"))

\* C9: add, and update of a named enabled flake, end with exit code 1 when
\* nix exits without success, whatever text it wrote: never with 0, and
\* never with the Internal error.
C9_SingleTargetFailureIsFatal ==
    (pc = "exited" /\ failures >= 1 /\ ~ReportedInvalidLine
     /\ (cmd.op = "add" \/ (cmd.op = "update" /\ cmd.name # NoName))) =>
        (exitCode = 1 /\ ~ReportedInternal)

\* The lines of stderr the loop of perform has consumed, and their kinds.
Seen == SubSeq(output.stderr, 1, line_no)
IsErrorLine(line) == starts_with(line, "error:")
IsWarningLine(line) == starts_with(line, "warning:")
IsPlainLine(line) == ~IsErrorLine(line) /\ ~IsWarningLine(line)
ErrorPositions == { i \in 1..line_no : IsErrorLine(Seen[i]) }
\* The position of the k-th error line.
ErrorPosition(k) ==
    CHOOSE p \in ErrorPositions : Cardinality({ q \in ErrorPositions : q <= p }) = k
\* The records made so far: the pushed ones, then the open one.
RecordsSoFar ==
    v \o (IF current_error # <<>> THEN <<ErrNix(current_error)>> ELSE <<>>)
\* The warnings perform has printed for the warning lines it consumed.
RECURSIVE WarningLinesOf(_)
WarningLinesOf(lines) ==
    IF lines = <<>> THEN <<>>
    ELSE (IF IsWarningLine(Head(lines))
          THEN <<WarnMsg("nix", "", <<trim(Head(lines))>>)>> ELSE <<>>)
         \o WarningLinesOf(Tail(lines))
IsMarkerWarning(msg) == IsWarningLine(msg.lines[1])

ExampleStderr ==
    << <<"error:", "A">>, <<"context1">>, <<"warning:", "B">>, <<"error:", "C">> >>

\* C10, in every state of the loop: there is one record per error line
\* consumed, in stream order; a record is the trimmed error line followed by
\* the trimmed lines, none of them a marker line, that directly follow it;
\* every warning line consumed has been printed, in order, and is in no
\* record; when perform returns no record is left open and all are
\* returned.  The stream of the example gives the two records and the one
\* warning of the example.
C10_Invariant ==
    (pc \in {"perform_loop", "perform_done"} /\ NixFailed) =>
        /\ Len(RecordsSoFar) = Cardinality(ErrorPositions)
        /\ \A k \in 1..Len(RecordsSoFar) :
             LET rec == RecordsSoFar[k].lines
                 p == ErrorPosition(k)
             IN  /\ RecordsSoFar[k].tag = "Nix"
                 /\ rec[1] = trim(Seen[p])
                 /\ \A j \in 2..Len(rec) :
                      /\ p + j - 1 <= line_no
                      /\ IsPlainLine(Seen[p + j - 1])
                      /\ rec[j] = trim(Seen[p + j - 1])
        /\ SelectSeq(stderrLog, IsMarkerWarning) = WarningLinesOf(Seen)
        /\ (pc = "perform_done" /\ line_no = Len(output.stderr)) =>
              (current_error = <<>> /\ performRes = Err(v))
        /\ (pc = "perform_done" /\ output.stderr = ExampleStderr) =>
              /\ performRes.errors =
                   << ErrNix(<< <<"error:", "A">>, <<"context1">> >>),
                      ErrNix(<< <<"error:", "C">> >>) >>
              /\ stderrLog = << WarnMsg("nix", "", << <<"warning:", "B">> >>) >>

\* C10, in every iteration of the loop: a plain line read while a record is
\* open is appended, trimmed, to that record and is not printed; an error
\* line pushes the open record and opens one; a warning line is printed at
\* once; the end of the stream pushes the open record.
C10_Step ==
    (pc = "perform_loop" /\ line_no' = line_no + 1) =>
        LET line == output.stderr[line_no + 1] IN
        /\ (IsPlainLine(line) /\ current_error # <<>>) =>
              (current_error' = Append(current_error, trim(line))
               /\ v' = v /\ stderrLog' = stderrLog)
        /\ IsErrorLine(line) =>
              (current_error' = <<trim(line)>>
               /\ v' = v \o (IF current_error # <<>> THEN <<ErrNix(current_error)>> ELSE <<>>)
               /\ stderrLog' = stderrLog)
        /\ IsWarningLine(line) =>
              stderrLog' = Append(stderrLog, WarnMsg("nix", "", <<trim(line)>>))
C10_AtEnd ==
    (pc = "perform_loop" /\ pc' = "perform_done" /\ line_no = Len(output.stderr)) =>
        v' = v \o (IF current_error # <<>> THEN <<ErrNix(current_error)>> ELSE <<>>)
C10_Classification ==
    []C10_Invariant /\ [][C10_Step /\ C10_AtEnd]_vars

\* C10 happens: perform has returned on the stream of the example.
C10_Witness ==
    /\ pc = "perform_done"
    /\ output.stderr = ExampleStderr
    /\ Len(performRes.errors) = 2
    /\ Len(stderrLog) = 1

\* nix wrote the line to stderr and the process printed it as a warning.
ReportedAsWarning(line) ==
    \E i \in 1..Len(stderrLog) : stderrLog[i] = WarnMsg("nix", "", <<trim(line)>>)

\* C11: when nix exits with zero, perform returns Ok and every line of
\* text nix wrote to its stderr has been printed as a warning: none is
\* dropped.
C11_SuccessStderrReported ==
    (pc = "perform_done" /\ NixSucceeded) =>
        /\ performRes = Ok
        /\ \A i \in 1..Len(output.stderr) :
             line_ok(output.stderr[i]) => ReportedAsWarning(output.stderr[i])

\* The command is update without a name, and its loop over the entries is over.
BatchDone == cmd.op = "update" /\ cmd.name = NoName /\ opDone # "none"
EnabledNames == { n \in DOMAIN flakes : flakes[n].enabled }
\* nix could not be started for some entry.
ReportedSpawnError ==
    \E i \in 1..Len(stderrLog) :
        /\ stderrLog[i].level = "error"
        /\ stderrLog[i].tag = "Io"
        /\ stderrLog[i].name = "shell"

\* C12: update of all entries runs nix exactly once per enabled entry, on
\* its path, and never for a disabled one, whichever runs fail: a failing
\* entry does not stop the later ones; and as many entries are reported as
\* failing as there are runs of nix that exited without success.
C12_OncePerEnabled ==
    BatchDone =>
        /\ opDone = "ok"
        /\ \E order \in Orders(EnabledNames) :
             invocations = [i \in 1..Len(order) |->
                              Invocation("update", flakes[order[i]].path)]
C12_FailuresReported ==
    (BatchDone /\ ~ReportedSpawnError) => reported = failures
C12_BatchResilience == C12_OncePerEnabled /\ C12_FailuresReported

IsBatch == cmd.op = "update" /\ cmd.name = NoName
SomeEntryFailed == failures >= 1 \/ ReportedSpawnError

\* C13: when update of all entries has had an entry fail, the registry is
\* still persisted: the batch changes no entry, the process does not end
\* before clean has been entered, once, and when clean has returned the
\* storage file is a complete serialization of exactly the entries the
\* registry held before the batch.
C13_PersistedAfterFailures ==
    (IsBatch /\ SomeEntryFailed) =>
        /\ flakes = loaded
        /\ (pc = "exited" /\ exitCode # Killed) => cleanCalls = 1
        /\ cleaned =>
             /\ fs[CONFIG_FILE].rows \in CompleteFiles(loaded)
             /\ LoadOf(fs[CONFIG_FILE]).ok
             /\ LoadOf(fs[CONFIG_FILE]).flakes = loaded

\* C13 happens: a batch over two entries, one of which failed, has ended
\* with the storage file written.
C13_Witness ==
    /\ IsBatch /\ failures >= 1
    /\ pc = "exited" /\ cleaned /\ exitCode = 0
    /\ DOMAIN loaded = {"x", "y"}
    /\ Len(invocations) = 2
    /\ LoadOf(fs[CONFIG_FILE]).flakes = loaded

\* The command is update of one name, and init loaded that name disabled.
UpdatesDisabled ==
    /\ cmd.op = "update" /\ cmd.name # NoName
    /\ cmd.name \in DOMAIN loaded
    /\ ~loaded[cmd.name].enabled
\* A warning of init about a repeated name.
IsLoadWarning(msg) == msg.level = "warning" /\ msg.tag = "Duplicate"
\* The error of an I/O operation of clean that failed.
IsCleanError(msg) ==
    msg.level = "error" /\ msg.tag = "Io" /\ cleanCalls = 1 /\ ~cleaned /\ ~res.ok

\* C14: update of one name whose entry is disabled runs nix not at all,
\* prints nothing about the flake, no error and no warning (the process's
\* stderr holds only what init and clean printed), changes no entry, and
\* returns Ok: the process goes through clean and, when no file operation
\* of clean fails, ends with exit code 0 and the loaded entries stored.
C14_DisabledNamedUpdate ==
    UpdatesDisabled =>
        /\ invocations = <<>>
        /\ failures = 0
        /\ stdoutLog = <<>>
        /\ flakes = loaded
        /\ opDone \in {"none", "ok"}
        /\ \A i \in 1..Len(stderrLog) :
             IsLoadWarning(stderrLog[i]) \/ IsCleanError(stderrLog[i])
        /\ (pc = "exited" /\ exitCode # Killed) => cleanCalls = 1
        /\ (pc = "exited" /\ exitCode # Killed /\ res.ok) =>
             /\ cleaned
             /\ exitCode = 0
             /\ LoadOf(fs[CONFIG_FILE]).flakes = loaded

\* C14 happens: update y, y disabled, has ended with exit code 0.
C14_Witness ==
    /\ UpdatesDisabled /\ cmd.name = "y"
    /\ pc = "exited" /\ exitCode = 0 /\ cleaned
    /\ invocations = <<>>
    /\ stderrLog = <<>>

NamedOps == {"enable", "disable", "info", "update"}
\* The error of a name that is not registered: NoFlake for update,
\* MissingFlake for the others.
UnknownNameError ==
    IF cmd.op = "update" THEN ErrNoFlake(cmd.name) ELSE ErrMissingFlake(cmd.name)
\* The operation of the command has ended, on a name init did not load.
UnknownNameDone ==
    /\ cmd.op \in NamedOps /\ cmd.name \in Names
    /\ opDone # "none"
    /\ cmd.name \notin DOMAIN loaded
\* A process whose command names a name the storage file does not hold.
RunsOnUnknownName ==
    /\ pc # "idle"
    /\ cmd.op \in NamedOps /\ cmd.name \in Names
    /\ IF pc = "new"
       THEN /\ LoadOf(fs[CONFIG_FILE]).ok
            /\ cmd.name \notin DOMAIN LoadOf(fs[CONFIG_FILE]).flakes
       ELSE cmd.name \notin DOMAIN loaded

\* enable, disable, info and update of a name that is not registered fail
\* with the error of an unknown name and exit code 1, run nix not at all,
\* change no entry and never enter clean.
C15_UnknownNameFails ==
    UnknownNameDone =>
        /\ opDone \in {"err", "fatal"}
        /\ invocations = <<>>
        /\ failures = 0
        /\ stdoutLog = <<>>
        /\ flakes = loaded
        /\ cleanCalls = 0 /\ ~cleaned
        /\ pc = "exited" =>
             /\ exitCode = 1
             /\ stderrLog # <<>>
             /\ stderrLog[Len(stderrLog)] = ErrorMsg(UnknownNameError)
             /\ \A i \in 1..(Len(stderrLog) - 1) : IsLoadWarning(stderrLog[i])

\* C15 as stated: such a command fails as above and writes nothing, the
\* storage file after the command being the one before it.
C15_FileSameStep == RunsOnUnknownName => fs'[CONFIG_FILE] = fs[CONFIG_FILE]
C15_FileSame == []C15_UnknownNameFails /\ [][C15_FileSameStep]_vars

\* C15, amended: such a command fails as above and writes no record: a
\* storage file that exists is left as it is, and one that does not exist is
\* created empty by init; the temporary file is not touched.
C15_RecordsSameStep ==
    RunsOnUnknownName =>
        /\ fs'[tmp_path] = fs[tmp_path]
        /\ IF fs[CONFIG_FILE].exists
           THEN fs'[CONFIG_FILE] = fs[CONFIG_FILE]
           ELSE fs'[CONFIG_FILE] \in {NoFile, FileOf(<<>>)}
C15_RecordsSame == []C15_UnknownNameFails /\ [][C15_RecordsSameStep]_vars

\* C15 happens: enable of a name the file does not hold has ended, with the
\* other entry still stored.
C15_Witness ==
    /\ UnknownNameDone /\ cmd.op = "enable"
    /\ pc = "exited" /\ exitCode = 1
    /\ DOMAIN loaded # {}
    /\ LoadOf(fs[CONFIG_FILE]).flakes = loaded

\* How many warnings with this tag the process has printed about cmd.name.
WarningsAbout(tag) ==
    Cardinality({ i \in 1..Len(stderrLog) :
                    stderrLog[i] = WarnMsg(tag, cmd.name, <<>>) })
\* The process has printed no error, but for an I/O error of clean itself.
NoErrorButOfClean ==
    \A i \in 1..Len(stderrLog) :
        stderrLog[i].level = "error" => IsCleanError(stderrLog[i])
\* The command's operation returned Ok, so main enters clean: unless a file
\* operation of clean fails or the process is killed, the process ends with
\* exit code 0 and the registry stored.
PersistsAndSucceeds ==
    /\ opDone = "ok"
    /\ NoErrorButOfClean
    /\ (pc = "exited" /\ exitCode # Killed) => cleanCalls = 1
    /\ (pc = "exited" /\ exitCode # Killed /\ res.ok) =>
         /\ cleaned
         /\ exitCode = 0
         /\ LoadOf(fs[CONFIG_FILE]).ok
         /\ LoadOf(fs[CONFIG_FILE]).flakes = flakes
\* The flag enable / disable sets, and the warning of a flag already set.
FlagOf(op) == op = "enable"
RedundantTag(op) == IF op = "enable" THEN "AlreadyEnabled" ELSE "AlreadyDisabled"
\* enable / disable of a registered name has been done.
FlagSet ==
    /\ cmd.op \in {"enable", "disable"}
    /\ opDone # "none"
    /\ cmd.name \in DOMAIN loaded

\* C16: disable of a registered name leaves enabled = false and only that
\* changed, is no error and does not keep clean from running; it prints no
\* warning when the entry was enabled and exactly one `already disabled`
\* when it was not.  Run a second time after a run that ended with exit
\* code 0, it loads the entry disabled: enabled = false after each run, one
\* warning in the second.  The same for enable, with `already enabled`.
C16_EachCall ==
    FlagSet =>
        /\ flakes = [loaded EXCEPT ![cmd.name].enabled = FlagOf(cmd.op)]
        /\ WarningsAbout(RedundantTag(cmd.op)) =
             (IF loaded[cmd.name].enabled = FlagOf(cmd.op) THEN 1 ELSE 0)
        /\ \A i \in 1..Len(stderrLog) :
             stderrLog[i].level = "warning" =>
                 \/ IsLoadWarning(stderrLog[i])
                 \/ stderrLog[i] = WarnMsg(RedundantTag(cmd.op), cmd.name, <<>>)
        /\ PersistsAndSucceeds
C16_SecondCall ==
    (cmd.op \in {"enable", "disable"} /\ done >= 1
     /\ (pc = "dispatch" \/ opDone # "none")) =>
        /\ cmd.name \in DOMAIN loaded
        /\ loaded[cmd.name].enabled = FlagOf(cmd.op)
        /\ opDone # "none" =>
             /\ flakes = loaded
             /\ WarningsAbout(RedundantTag(cmd.op)) = 1
C16_Idempotent == C16_EachCall /\ C16_SecondCall

\* C16 happens: the second disable x in a row has ended with exit code 0,
\* x disabled in the registry and in the file, after one warning.
C16_Witness ==
    /\ cmd = Command("disable", "x", <<>>)
    /\ done = 1
    /\ pc = "exited" /\ exitCode = 0
    /\ ~flakes["x"].enabled
    /\ ~LoadOf(fs[CONFIG_FILE]).flakes["x"].enabled
    /\ stderrLog = <<WarnMsg("AlreadyDisabled", "x", <<>>)>>

\* remove has been done.
RemoveDone == cmd.op = "remove" /\ opDone # "none"
\* The registry that was loaded, without the entry of cmd.name.
LoadedWithoutName == [n \in DOMAIN loaded \ {cmd.name} |-> loaded[n]]

\* C17: remove never fails.  Of a registered name it deletes the entry and
\* prints no warning; of a name with no entry it prints exactly one warning
\* and leaves the registry as it is; both return Ok, so that clean runs and
\* the process ends with exit code 0.  Run a second time after a run that
\* ended with exit code 0, it loads a registry without the name and leaves
\* it as it is: removing twice gives the registry of removing once.
C17_EachCall ==
    RemoveDone =>
        /\ flakes = LoadedWithoutName
        /\ WarningsAbout("DoesNotExist") =
             (IF cmd.name \in DOMAIN loaded THEN 0 ELSE 1)
        /\ \A i \in 1..Len(stderrLog) :
             stderrLog[i].level = "warning" =>
                 \/ IsLoadWarning(stderrLog[i])
                 \/ stderrLog[i] = WarnMsg("DoesNotExist", cmd.name, <<>>)
        /\ PersistsAndSucceeds
C17_SecondCall ==
    (cmd.op = "remove" /\ done >= 1 /\ (pc = "dispatch" \/ opDone # "none")) =>
        /\ cmd.name \notin DOMAIN loaded
        /\ opDone # "none" =>
             /\ flakes = loaded
             /\ WarningsAbout("DoesNotExist") = 1
EndedOnError ==
    /\ pc = "exited" /\ exitCode # Killed
    /\ ~cleaned
    /\ stderrLog # <<>>
    /\ stderrLog[Len(stderrLog)].level = "error"
FatalError == stderrLog[Len(stderrLog)]

\* C18: the process exits with 0 only when the command fully succeeded: no
\* fatal error, clean done, and for a command on one flake no failed run of
\* nix; a fatal I/O error gives a non-zero exit code; every other fatal error
\* gives exit code 1.
C18_ExitCodes ==
    /\ (pc = "exited" /\ exitCode = 0) =>
          /\ ~EndedOnError
          /\ cleaned
          /\ ~IsBatch => failures = 0
    /\ EndedOnError =>
          IF FatalError.tag = "Io" THEN exitCode # 0 ELSE exitCode = 1

\* C19: in update of all entries, the line printed before the k-th enabled
\* entry is updated shows the position k and the total N, the number of
\* enabled entries: positions run from 1 to N, whatever disabled entries
\* the registry holds.
C19_ProgressNumbering ==
    IsBatch =>
        \A k \in 1..Len(stdoutLog) :
            /\ stdoutLog[k].kind = "updating"
            /\ stdoutLog[k].nb = nb_enabled
            /\ stdoutLog[k].i = k
            /\ stdoutLog[k].i \in 1..nb_enabled

\* The position of the error line that follows position p, line_no + 1 when
\* there is none.
NextErrorAfter(p) ==
    LET later == { q \in ErrorPositions : q > p }
    IN  IF later = {} THEN line_no + 1
        ELSE CHOOSE q \in later : \A r \in later : q <= r
\* A record is open when line i is read: an error line precedes it and, when
\* a warning line closes a record, only plain lines lie between the two.
OpenAt(i, warning_closes) ==
    \E p \in ErrorPositions :
        /\ p < i
        /\ warning_closes => \A j \in (p + 1)..(i - 1) : IsPlainLine(Seen[j])
\* The trimmed plain lines among lines i..to that were read with a record open.
RECURSIVE DetailsIn(_, _, _)
DetailsIn(i, to, warning_closes) ==
    IF i > to THEN <<>>
    ELSE (IF IsPlainLine(Seen[i]) /\ OpenAt(i, warning_closes)
          THEN <<trim(Seen[i])>> ELSE <<>>)
         \o DetailsIn(i + 1, to, warning_closes)
\* The warnings for lines i..to: the warning lines, and the plain lines read
\* with no record open.
RECURSIVE WarnedIn(_, _, _)
WarnedIn(i, to, warning_closes) ==
    IF i > to THEN <<>>
    ELSE (IF \/ IsWarningLine(Seen[i])
             \/ (IsPlainLine(Seen[i]) /\ ~OpenAt(i, warning_closes))
          THEN <<WarnMsg("nix", "", <<trim(Seen[i])>>)>> ELSE <<>>)
         \o WarnedIn(i + 1, to, warning_closes)
\* What perform has made of the lines consumed: the k-th record is the k-th
\* error line and the plain lines up to the next error line that were read
\* while it was open; stderr holds the warnings, in stream order.
ClassifiedAs(warning_closes) ==
    (pc \in {"perform_loop", "perform_done"} /\ NixFailed) =>
        /\ Len(RecordsSoFar) = Cardinality(ErrorPositions)
        /\ \A k \in 1..Len(RecordsSoFar) :
             RecordsSoFar[k].lines =
                 <<trim(Seen[ErrorPosition(k)])>>
                 \o DetailsIn(ErrorPosition(k) + 1,
                              NextErrorAfter(ErrorPosition(k)) - 1, warning_closes)
        /\ stderrLog = WarnedIn(1, line_no, warning_closes)

\* C20 as stated: only a following error line or the end of the stream
\* closes an open record; a warning line leaves it open, so a plain line
\* read after the warning is appended to the record and is not printed as
\* a warning.
C20_WarningKeepsOpen == ClassifiedAs(FALSE)

\* C20, amended: a following error line, a following warning line and the
\* end of the stream close an open record; a plain line read after the
\* warning, before the next error line, is printed as a warning of its own
\* and enters no record.
C20_WarningCloses == ClassifiedAs(TRUE)

\* C20 happens: perform has returned on `error: A`, `warning: B`, `context1`.
C20_Witness ==
    /\ pc = "perform_done"
    /\ output.stderr = << <<"error:", "A">>, <<"warning:", "B">>, <<"context1">> >>
    /\ line_no = 3
    /\ performRes = Err(<<ErrNix(<< <<"error:", "A">> >>)>>)
    /\ stderrLog = << WarnMsg("nix", "", << <<"warning:", "B">> >>),
                      WarnMsg("nix", "", << <<"context1">> >>) >>

\* main has reached its end and handle_errors does not end the process
\* there: interface is dropped.
TornDown == pc = "main_end" /\ (res.ok \/ res.errors = <<>>)
UnexpectedExit == ErrorMsg(ErrInternal("unexpected exit"))

\* C21: an Interface dropped at the end of main with cleaned false does not
\* go silently: the Internal error `unexpected exit` is printed and the
\* process exits with code 1; dropped after clean has returned Ok, it prints
\* nothing and the process ends with code 0.  The Internal error is printed
\* by no process that was cleaned.
C21_DropStep ==
    TornDown =>
        /\ pc' = "exited"
        /\ IF ~cleaned
           THEN /\ stderrLog' = Append(stderrLog, UnexpectedExit)
                /\ exitCode' = 1
           ELSE /\ stderrLog' = stderrLog
                /\ exitCode' = 0
C21_Reported ==
    /\ ReportedInternal => (pc = "exited" /\ ~cleaned /\ exitCode = 1)
    /\ (pc = "exited" /\ cleaned) => (exitCode = 0 /\ ~ReportedInternal)
C21_DropWithoutClean == []C21_Reported /\ [][C21_DropStep]_vars

\* C21 happens: a process whose Interface was not cleaned has been ended by
\* Drop, with the Internal error as its last word.
C21_Witness ==
    /\ pc = "exited" /\ exitCode = 1 /\ ~cleaned
    /\ cleanCalls = 0
    /\ stderrLog # <<>>
    /\ stderrLog[Len(stderrLog)] = UnexpectedExit

\* The process has loaded its registry and has not ended: the steps from
\* here are those of the command and of clean.
Running == pc \notin {"new", "exited", "idle"}

\* C22: once the registry is loaded, update (of one name or of all), list
\* and info never change self.flakes; enable and disable change nothing but
\* the enabled flag of the entry named; no step changes the path of an entry
\* that is in the registry before and after it; and only add and remove
\* change the set of names.
C22_ReadOnlyStep ==
    (Running /\ cmd.op \in {"update", "list", "info"}) => flakes' = flakes
C22_FlagOnlyStep ==
    (Running /\ cmd.op \in {"enable", "disable"}) =>
        /\ DOMAIN flakes' = DOMAIN flakes
        /\ \A n \in DOMAIN flakes :
             /\ flakes'[n].path = flakes[n].path
             /\ n # cmd.name => flakes'[n] = flakes[n]
C22_PathStep ==
    Running =>
        \A n \in DOMAIN flakes \cap DOMAIN flakes' : flakes'[n].path = flakes[n].path
C22_NamesStep ==
    (Running /\ cmd.op \notin {"add", "remove"}) => DOMAIN flakes' = DOMAIN flakes
C22_Frame ==
    [][C22_ReadOnlyStep /\ C22_FlagOnlyStep /\ C22_PathStep /\ C22_NamesStep]_vars

\* C22 happens: disable x has cleared the flag of x in a registry of two
\* entries, and nothing else differs from what was loaded.
C22_Witness ==
    /\ cmd = Command("disable", "x", <<>>)
    /\ opDone = "ok"
    /\ DOMAIN loaded = {"x", "y"} /\ DOMAIN flakes = {"x", "y"}
    /\ loaded["x"].enabled /\ ~flakes["x"].enabled
    /\ flakes["x"].path = loaded["x"].path
    /\ flakes["y"] = loaded["y"]

====
